---- MODULE Spec2Model ----
(***************************************************************************)
(* RBAC backend (Express + Mongoose): the stores of users, roles and       *)
(* permissions, the middleware chain authenticate -> guard -> handler of   *)
(* the users, roles and permissions routers, User.hasPermission, the audit *)
(* log written by authorize and auditLog, and the refresh-token sessions.  *)
(***************************************************************************)
EXTENDS Integers, Sequences, FiniteSets, TLC

\* ------------------------------------------------------------------ bounds
MaxUsers == 3
MaxRoles == 4
MaxPerms == 5
MaxTime == 1
MaxOps == 2
MaxAudit == 2

UserIds == 1..MaxUsers
RoleIds == 1..MaxRoles
PermIds == 1..MaxPerms
\* the refresh tokens a login issues, and the accounts that log in
TokenIds == {"rt1"}
LoginIds == {2}
Times == 0..MaxTime

\* an id that names no document: the value of an absent reference
Nil == Cardinality({})
\* a well-formed id that was never given to any user
GhostId == MaxUsers + 1

Resources == {"user", "role", "permission"}
Actions == {"create", "read", "update", "delete", "manage"}
Emails == {"admin@x.io", "New@x.io"}
FirstNames == {"Zed"}
RoleNames == {"Admin", "Manager"}
PermNames == {"Read Users", "Delete Users"}
\* the grants POST /api/permissions is called with
NewResources == {"user"}
NewActions == {"read", "delete"}

Range(s) == {s[i] : i \in DOMAIN s}

\* the role-id lists and permission-id lists requests carry: empty, single, several
\* in either order, one id twice, an id that names nothing
RoleLists == {<<>>, <<3>>, <<2, 1>>, <<2, 2>>, <<MaxRoles>>}
PermLists == {<<>>, <<4>>, <<1, 2, 3>>, <<4, 4>>, <<MaxPerms>>}

\* audit is the audit-log collection; auditRoom is how many more records its storage
\* takes before a save fails
VARIABLES users, roles, permissions, req, nops, audit, auditRoom, parked

store == <<users, roles, permissions>>
auditVars == <<audit, auditRoom>>
vars == <<users, roles, permissions, req, nops, audit, auditRoom, parked>>

\* ------------------------------------------------------------- documents
\* a password as a document holds it: the text as it was submitted (alg "plain") or
\* the bcrypt hash of that text
Plain(text) == [alg |-> "plain", text |-> text]
bcryptHash(text) == [alg |-> "bcrypt", text |-> text]

\* new User({...}): the document before it is saved, its password as submitted
UserDoc(email, firstName, rs, active) ==
    [email |-> email, firstName |-> firstName, roles |-> rs,
     isActive |-> active, refreshTokens |-> {}, password |-> Plain("Passw0rd!")]

\* userSchema.pre('save'): a password that was set and is not yet hashed is replaced
\* by its bcrypt hash
preSave(doc) ==
    IF doc.password.alg = "plain"
    THEN [doc EXCEPT !.password = bcryptHash(doc.password.text)]
    ELSE doc

\* User.create(doc): new User(doc).save(), the save middleware runs
UserCreate(doc) == preSave(doc)

\* User.insertMany(docs): the documents are validated and written in one insert; the
\* save middleware does not run
UserInsertMany(docs) == docs

RoleDoc(name, ps, active) == [name |-> name, permissions |-> ps, isActive |-> active]

PermDoc(name, resource, action) ==
    [name |-> name, resource |-> resource, action |-> action, deleted |-> FALSE]

\* schema option lowercase: true on User.email
Lower(e) ==
    IF e = "New@x.io" THEN "new@x.io"
    ELSE IF e = "Admin@x.io" THEN "admin@x.io"
    ELSE e

\* Object.assign(doc, value): every field the body carries overwrites the document's
ObjectAssign(doc, value) ==
    [f \in DOMAIN doc |-> IF f \in DOMAIN value THEN value[f] ELSE doc[f]]

\* the stores are functions from the ids given out so far; users and roles are
\* never removed, a removed permission keeps its id (ids are never given twice)
ExistingUsers == DOMAIN users
ExistingRoles == DOMAIN roles
ExistingPerms == {p \in DOMAIN permissions : ~permissions[p].deleted}

\* ------------------------------------------------------- User.hasPermission
\* role.populate('permissions'): ids that name no permission are dropped
PopulatedPermissions(r) ==
    SelectSeq(roles[r].permissions,
              LAMBDA p : p \in DOMAIN permissions /\ ~permissions[p].deleted)

\* this.populate('roles'): ids that name no role are dropped
PopulatedRoles(u) ==
    SelectSeq(users[u].roles, LAMBDA r : r \in ExistingRoles)

\* role.permissions.some(permission => ...)
PermissionsSome(ps, resource, action) ==
    \E i \in DOMAIN ps :
        /\ permissions[ps[i]].resource = resource
        /\ (permissions[ps[i]].action = action \/ permissions[ps[i]].action = "manage")

\* the loop as it would be if it stopped at the first role
RolesLoopFirstRoleOnly(rs, resource, action) ==
    /\ rs # <<>>
    /\ roles[Head(rs)].isActive
    /\ PermissionsSome(PopulatedPermissions(Head(rs)), resource, action)

\* the loop as it would be without the isActive test
RECURSIVE RolesLoopAnyRole(_, _, _)
RolesLoopAnyRole(rs, resource, action) ==
    IF rs = <<>> THEN FALSE
    ELSE IF PermissionsSome(PopulatedPermissions(Head(rs)), resource, action) THEN TRUE
    ELSE RolesLoopAnyRole(Tail(rs), resource, action)

\* for (const role of this.roles) { if (!role.isActive) continue; ... }
RECURSIVE RolesLoop(_, _, _)
RolesLoop(rs, resource, action) ==
    IF rs = <<>> THEN FALSE
    ELSE IF ~roles[Head(rs)].isActive THEN RolesLoop(Tail(rs), resource, action)
    ELSE IF PermissionsSome(PopulatedPermissions(Head(rs)), resource, action) THEN TRUE
    ELSE RolesLoop(Tail(rs), resource, action)

hasPermission(u, resource, action) ==
    IF Len(PopulatedRoles(u)) = 0 THEN FALSE
    ELSE RolesLoop(PopulatedRoles(u), resource, action)

\* ------------------------------------------------------------------ tokens
\* a bearer token: the secret it was signed with, the id claim and the exp claim;
\* sig "none" is a request without a Bearer authorization header.
\* expiresIn '15m' is the whole of the modelled time, '7d' reaches beyond it
AccessTtl == MaxTime
RefreshTtl == AccessTtl + 1

\* generateAccessToken as it would be if it signed with JWT_REFRESH_SECRET
generateAccessTokenRefreshSecret(u, t) == [sig |-> "refresh", id |-> u, exp |-> t + AccessTtl]

\* user.generateAccessToken() at clock t
generateAccessToken(u, t) == [sig |-> "access", id |-> u, exp |-> t + AccessTtl]

\* generateRefreshToken as it would be if it signed with JWT_ACCESS_SECRET
generateRefreshTokenAccessSecret(u, t) == [sig |-> "access", id |-> u, exp |-> t + RefreshTtl]

\* user.generateRefreshToken() at clock t
generateRefreshToken(u, t) == [sig |-> "refresh", id |-> u, exp |-> t + RefreshTtl]

\* the bearer tokens at hand, all issued at clock 0: an access token of every id
\* (the id of a user that is not there included) and a refresh token of the first user
Tokens ==
    {generateAccessToken(u, 0) : u \in UserIds \cup {GhostId}}
    \cup {generateRefreshToken(u, 0) : u \in {v \in UserIds : v = 1}}
NoToken == [sig |-> "none", id |-> GhostId, exp |-> MaxTime]

\* jwt.verify as it would be if both token classes were signed with one secret
jwtVerifyAnySecret(token, secret, t) ==
    IF token.sig = "none" THEN "invalid"
    ELSE IF t >= token.exp THEN "expired"
    ELSE "ok"

\* jwt.verify as it would be if a token were still good at its expiry instant
jwtVerifyInclusive(token, secret, t) ==
    IF token.sig # secret THEN "invalid"
    ELSE IF t > token.exp THEN "expired"
    ELSE "ok"

\* jwt.verify(token, secret) at clock t: "ok", "expired" (TokenExpiredError) or
\* "invalid" (JsonWebTokenError)
jwtVerify(token, secret, t) ==
    IF token.sig # secret THEN "invalid"
    ELSE IF t >= token.exp THEN "expired"
    ELSE "ok"

\* ---------------------------------------------------------------- requests
Routes == {"createUser", "updateUser", "deleteUser", "activateUser", "assignRoles",
           "createRole", "updateRole", "deleteRole", "setRolePermissions",
           "createPermission", "deletePermission"}

\* ------------------------------------------------------------ audit records
\* the fields of an audit record that the middleware fills in; required is
\* metadata.requiredResource and metadata.requiredAction (empty when not given),
\* resourceId is req.params.id (Nil when the route has none)
AuditEntry(action, resource, resourceId, userId, userEmail, required) ==
    [action |-> action, resource |-> resource, resourceId |-> resourceId,
     userId |-> userId, userEmail |-> userEmail, required |-> required]

NoEntry == AuditEntry("none", "none", Nil, Nil, "none", <<>>)

\* AuditLog.createLog as it would be without its try/catch: a failed save throws
createLogThrowing(room) == IF room > 0 THEN "stored" ELSE "threw"

\* AuditLog.createLog: the record is saved, or the failure is swallowed and null
\* is returned
createLog(room) == IF room > 0 THEN "stored" ELSE "null"

\* the save as it would be if it were an upsert keyed by the acting principal
AuditUpsertByUser(log, entry) ==
    IF \E i \in DOMAIN log : log[i].userId = entry.userId
    THEN [i \in DOMAIN log |-> IF log[i].userId = entry.userId THEN entry ELSE log[i]]
    ELSE Append(log, entry)

\* new this(data) followed by save(): one more document in the collection
AuditAppend(log, entry) == Append(log, entry)

\* the audit collection and its room after createLog(entry) ended with outcome
AuditWritten(outcome, entry) ==
    /\ audit' = IF outcome = "stored" THEN AuditAppend(audit, entry) ELSE audit
    /\ auditRoom' = IF outcome = "stored" THEN auditRoom - 1 ELSE auditRoom

\* wasActive remembers, in the answer of a handler, whether the document the request
\* named was active (for a logout: whether the token was outstanding) when the handler
\* started; audited tells where the audit write of
\* the request stands ("none", "pending", "stored", "failed") and entry is the record
\* a pending write carries; loaded is the refreshTokens array of the user document
\* authenticate attached as req.user, body the documents a handler has checked and is
\* about to write
Request(pc, token, at, user, route, target, status) ==
    [pc |-> pc, token |-> token, at |-> at, user |-> user, route |-> route,
     target |-> target, status |-> status, wasActive |-> FALSE,
     audited |-> "none", entry |-> NoEntry, loaded |-> {}, body |-> <<>>]

Idle == Request("idle", NoToken, Nil, Nil, "none", Nil, Nil)
\* the response is sent: the request is over
Done(user, route, target, status) == Request("done", NoToken, Nil, user, route, target, status)

SeedPermissions ==
    <<PermDoc("Manage Users", "user", "manage"),
      PermDoc("Manage Roles", "role", "manage"),
      PermDoc("Manage Permissions", "permission", "manage"),
      PermDoc("Read Users", "user", "read")>>

SeedRoles ==
    <<RoleDoc("Admin", <<1, 2, 3>>, TRUE), RoleDoc("Viewer", <<4>>, TRUE),
      RoleDoc("Guest", <<4>>, TRUE)>>

SeedUsers ==
    <<UserCreate(UserDoc("admin@x.io", "Ann", <<2, 1>>, TRUE)),
      UserCreate(UserDoc("viewer@x.io", "Bob", <<2>>, TRUE))>>

\* the documents the seed script leaves, no request at hand, an empty audit log
Seeded ==
    /\ permissions = SeedPermissions
    /\ roles = SeedRoles
    /\ users = SeedUsers
    /\ req = Idle
    /\ nops = 0
    /\ audit = <<>>
    /\ parked = Idle

\* the server starts on the seeded store; its audit storage takes no record
Init == Seeded /\ auditRoom = 0

\* a request arrives: its Authorization header and the clock at verification
Receive(token, t) ==
    /\ req.pc \in {"idle", "done"}
    /\ req.audited # "pending"
    /\ nops < MaxOps
    /\ req' = Request("received", token, t, Nil, "none", Nil, Nil)
    /\ UNCHANGED <<users, roles, permissions, nops, auditVars, parked>>

\* res.status(401).json(...) of authenticate: the request is over, nothing attached
\* (the answer keeps the header and the clock it was decided on)
Unauthorized == Request("done", req.token, req.at, Nil, "none", Nil, 401)

\* authenticate as it would be without the isActive test
authenticateInactiveToo ==
    /\ req.pc = "received"
    /\ req' = IF req.token.sig = "none" THEN Unauthorized
              ELSE IF jwtVerify(req.token, "access", req.at) # "ok" THEN Unauthorized
              ELSE IF req.token.id \notin ExistingUsers THEN Unauthorized
              ELSE Request("authenticated", NoToken, Nil, req.token.id, "none", Nil, Nil)
    /\ UNCHANGED <<users, roles, permissions, nops, auditVars, parked>>

\* authenticate as it would be if it read user.isActive before testing for no user:
\* the TypeError ends in the 500 of the outer catch
authenticateNoNullTest ==
    /\ req.pc = "received"
    /\ req' = IF req.token.sig = "none" THEN Unauthorized
              ELSE IF jwtVerify(req.token, "access", req.at) # "ok" THEN Unauthorized
              ELSE IF req.token.id \notin ExistingUsers
                   THEN [Unauthorized EXCEPT !.status = 500]
              ELSE IF ~users[req.token.id].isActive THEN Unauthorized
              ELSE Request("authenticated", NoToken, Nil, req.token.id, "none", Nil, Nil)
    /\ UNCHANGED <<users, roles, permissions, nops, auditVars, parked>>

\* authenticate as it would be if it also asked for an outstanding refresh token
authenticateOutstandingOnly ==
    /\ req.pc = "received"
    /\ req' = IF req.token.sig = "none" THEN Unauthorized
              ELSE IF jwtVerify(req.token, "access", req.at) # "ok" THEN Unauthorized
              ELSE IF req.token.id \notin ExistingUsers THEN Unauthorized
              ELSE IF ~users[req.token.id].isActive THEN Unauthorized
              ELSE IF users[req.token.id].refreshTokens = {} THEN Unauthorized
              ELSE [Request("authenticated", NoToken, Nil, req.token.id, "none", Nil, Nil)
                       EXCEPT !.loaded = users[req.token.id].refreshTokens]
    /\ UNCHANGED <<users, roles, permissions, nops, auditVars, parked>>

\* middleware authenticate: next() with req.user set, or 401
authenticate ==
    /\ req.pc = "received"
    /\ req' = IF req.token.sig = "none" THEN Unauthorized
              ELSE IF jwtVerify(req.token, "access", req.at) # "ok" THEN Unauthorized
              ELSE IF req.token.id \notin ExistingUsers THEN Unauthorized
              ELSE IF ~users[req.token.id].isActive THEN Unauthorized
              ELSE [Request("authenticated", NoToken, Nil, req.token.id, "none", Nil, Nil)
                       EXCEPT !.loaded = users[req.token.id].refreshTokens]
    /\ UNCHANGED <<users, roles, permissions, nops, auditVars, parked>>

\* the guard each route is mounted with: authorize(resource, action), or
\* authorizeResourceOwnership(resource) (kind "ownership")
RouteGuard(route) ==
    CASE route = "createUser" -> [kind |-> "authorize", resource |-> "user", action |-> "create"]
      [] route = "updateUser" -> [kind |-> "ownership", resource |-> "user", action |-> "manage"]
      [] route = "deleteUser" -> [kind |-> "authorize", resource |-> "user", action |-> "delete"]
      [] route = "activateUser" -> [kind |-> "authorize", resource |-> "user", action |-> "update"]
      [] route = "assignRoles" -> [kind |-> "authorize", resource |-> "user", action |-> "update"]
      [] route = "createRole" -> [kind |-> "authorize", resource |-> "role", action |-> "create"]
      [] route = "updateRole" -> [kind |-> "authorize", resource |-> "role", action |-> "update"]
      [] route = "deleteRole" -> [kind |-> "authorize", resource |-> "role", action |-> "delete"]
      [] route = "setRolePermissions" -> [kind |-> "authorize", resource |-> "role", action |-> "update"]
      [] route = "createPermission" -> [kind |-> "authorize", resource |-> "permission", action |-> "manage"]
      [] route = "bulkCreatePermissions" -> [kind |-> "authorize", resource |-> "permission", action |-> "manage"]
      [] route = "deletePermission" -> [kind |-> "authorize", resource |-> "permission", action |-> "manage"]

\* the values of req.params.id a route is called with (ids that name nothing included)
TargetsOf(route) ==
    IF route \in {"updateUser", "deleteUser", "activateUser", "assignRoles"} THEN UserIds
    ELSE IF route \in {"updateRole", "deleteRole", "setRolePermissions"} THEN RoleIds
    ELSE IF route = "deletePermission" THEN PermIds
    ELSE {Nil}

\* a create route is dispatched only while the model has an id left to give
HasRoom(route) ==
    /\ route = "createUser" => Len(users) < MaxUsers
    /\ route = "createRole" => Len(roles) < MaxRoles
    /\ route = "createPermission" => Len(permissions) < MaxPerms
    /\ route = "bulkCreatePermissions" => Len(permissions) < MaxPerms

\* authorize as it would be if it answered from the grants the principal had when the
\* server started (the seeded administrator held every grant)
authorizeFromStartup(user, resource, action) ==
    IF user = 1 THEN TRUE ELSE hasPermission(user, resource, action)

\* middleware authorize(resource, action): does the chain go on to the handler
authorize(user, resource, action) == hasPermission(user, resource, action)

\* middleware requireRoles(roles) as it would be if it left out inactive roles
requireRolesActiveOnly(user, required) ==
    \E i \in DOMAIN PopulatedRoles(user) :
        /\ roles[PopulatedRoles(user)[i]].isActive
        /\ roles[PopulatedRoles(user)[i]].name \in required

\* middleware requireRoles(roles): req.user.populate('roles'), then
\* roles.some(role => userRoleNames.includes(role)); TRUE is next(), FALSE the 403
requireRoles(user, required) ==
    \E i \in DOMAIN PopulatedRoles(user) :
        roles[PopulatedRoles(user)[i]].name \in required

\* authorizeResourceOwnership as it would be without the test for the caller's own id
authorizeResourceOwnershipManageOnly(user, resource, target) ==
    hasPermission(user, resource, "manage")

\* middleware authorizeResourceOwnership(resource)
authorizeResourceOwnership(user, resource, target) ==
    IF target = user THEN TRUE ELSE hasPermission(user, resource, "manage")

GuardAllows(user, route, target) ==
    IF RouteGuard(route).kind = "authorize"
    THEN authorize(user, RouteGuard(route).resource, RouteGuard(route).action)
    ELSE authorizeResourceOwnership(user, RouteGuard(route).resource, target)

\* the guard as it would be if it called next() after a denial
guardAlwaysNext(route, target) ==
    /\ req.pc = "authenticated"
    /\ HasRoom(route)
    /\ req' = Request("authorized", NoToken, Nil, req.user, route, target, Nil)
    /\ UNCHANGED <<users, roles, permissions, nops, auditVars, parked>>

\* the record authorize writes before its 403
DenialEntry(user, route, target) ==
    AuditEntry("read", "unauthorized_access", target, user, users[user].email,
               <<RouteGuard(route).resource, RouteGuard(route).action>>)

\* the route's guard runs: next() to the handler, or 403 (401 without req.user).
\* authorize awaits AuditLog.createLog before its 403 (a throw there would end in the
\* 500 of its catch); authorizeResourceOwnership answers 403 without writing
guard(route, target) ==
    /\ req.pc = "authenticated"
    /\ HasRoom(route)
    /\ LET denied == req.user # Nil /\ ~GuardAllows(req.user, route, target)
           logged == denied /\ RouteGuard(route).kind = "authorize"
           outcome == createLog(auditRoom)
       IN /\ req' = IF req.user = Nil THEN Done(Nil, route, target, 401)
                    ELSE IF logged
                    THEN [Done(req.user, route, target,
                               IF outcome = "threw" THEN 500 ELSE 403)
                             EXCEPT !.audited = IF outcome = "stored" THEN "stored"
                                                ELSE "failed"]
                    ELSE IF denied THEN Done(req.user, route, target, 403)
                    ELSE Request("authorized", NoToken, Nil, req.user, route, target, Nil)
          /\ IF logged
             THEN AuditWritten(outcome, DenialEntry(req.user, route, target))
             ELSE UNCHANGED auditVars
    /\ UNCHANGED <<users, roles, permissions, nops, parked>>

\* ------------------------------------------------------------ users router
\* Role.find({_id: {$in: rs}, isActive: true})
ValidRoles(rs) == {r \in Range(rs) : r \in ExistingRoles /\ roles[r].isActive}

\* Permission.find({_id: {$in: ps}})
ValidPermissions(ps) == Range(ps) \cap ExistingPerms

TargetIsActive ==
    IF RouteGuard(req.route).resource = "user"
    THEN req.target \in ExistingUsers /\ users[req.target].isActive
    ELSE IF RouteGuard(req.route).resource = "role"
    THEN req.target \in ExistingRoles /\ roles[req.target].isActive
    ELSE FALSE

\* the (action, resource) each route's auditLog middleware is mounted with
AuditOf(route) ==
    CASE route = "createUser" -> <<"create", "user">>
      [] route = "updateUser" -> <<"update", "user">>
      [] route = "deleteUser" -> <<"delete", "user">>
      [] route = "activateUser" -> <<"update", "user">>
      [] route = "assignRoles" -> <<"assign_role", "user">>
      [] route = "createRole" -> <<"create", "role">>
      [] route = "updateRole" -> <<"update", "role">>
      [] route = "deleteRole" -> <<"delete", "role">>
      [] route = "setRolePermissions" -> <<"permission_change", "role">>
      [] route = "createPermission" -> <<"create", "permission">>
      [] route = "bulkCreatePermissions" -> <<"create", "permission">>
      [] route = "deletePermission" -> <<"delete", "permission">>

\* the res.json wrapper of auditLog: with req.user set and a status below 400 it calls
\* AuditLog.createLog without awaiting it, then sends the response; the record carries
\* the email of req.user as authenticate loaded it
Finish(status, ok) ==
    /\ req' = [Done(req.user, req.route, req.target, status)
                  EXCEPT !.wasActive = TargetIsActive,
                         !.audited = IF status < 400 THEN "pending" ELSE "none",
                         !.entry = IF status < 400
                                   THEN AuditEntry(AuditOf(req.route)[1],
                                                   AuditOf(req.route)[2], req.target,
                                                   req.user, users[req.user].email, <<>>)
                                   ELSE NoEntry]
    /\ nops' = IF status = ok THEN nops + 1 ELSE nops
    /\ UNCHANGED <<auditVars, parked>>

\* the createLog call a response left behind comes to its end: stored, or failed
AuditSave ==
    /\ req.pc = "done"
    /\ req.audited = "pending"
    /\ LET outcome == createLog(auditRoom)
       IN /\ AuditWritten(outcome, req.entry)
          /\ req' = [req EXCEPT !.audited = IF outcome = "stored" THEN "stored"
                                            ELSE "failed",
                                !.entry = NoEntry]
    /\ UNCHANGED <<users, roles, permissions, nops, parked>>

\* POST /api/users as it would be if the lookup compared the email as it was sent
CreateUserExactMatch(email, firstName, rs) ==
    /\ req.pc = "authorized" /\ req.route = "createUser"
    /\ LET status ==
             IF \E u \in ExistingUsers : users[u].email = email THEN 409
             ELSE IF Len(rs) > 0 /\ Cardinality(ValidRoles(rs)) # Len(rs) THEN 400
             ELSE 201
       IN /\ users' = IF status = 201
                       THEN Append(users,
                                   preSave(UserDoc(Lower(email), firstName, rs, TRUE)))
                       ELSE users
          /\ Finish(status, 201)
    /\ UNCHANGED <<roles, permissions>>

\* POST /api/users
CreateUser(email, firstName, rs) ==
    /\ req.pc = "authorized" /\ req.route = "createUser"
    /\ LET status ==
             IF \E u \in ExistingUsers : users[u].email = Lower(email) THEN 409
             ELSE IF Len(rs) > 0 /\ Cardinality(ValidRoles(rs)) # Len(rs) THEN 400
             ELSE 201
       IN /\ users' = IF status = 201
                       THEN Append(users,
                                   preSave(UserDoc(Lower(email), firstName, rs, TRUE)))
                       ELSE users
          /\ Finish(status, 201)
    /\ UNCHANGED <<roles, permissions>>

UpdateUserBodies ==
    {<<>>}
    \cup {("email" :> e) : e \in Emails}
    \cup {("firstName" :> n) : n \in FirstNames}
    \cup {("roles" :> rs) : rs \in RoleLists}
    \cup {("isActive" :> b) : b \in BOOLEAN}

\* a save of a user document: the email setter lowercases
SaveUser(doc) == [doc EXCEPT !.email = Lower(doc.email)]

\* PUT /api/users/:id
UpdateUser(value) ==
    /\ req.pc = "authorized" /\ req.route = "updateUser"
    /\ LET id == req.target
           status ==
             IF id \notin ExistingUsers THEN 404
             ELSE IF /\ "email" \in DOMAIN value
                     /\ value.email # users[id].email
                     /\ \E u \in ExistingUsers \ {id} : users[u].email = Lower(value.email)
                  THEN 409
             ELSE IF /\ "roles" \in DOMAIN value
                     /\ Cardinality(ValidRoles(value.roles)) # Len(value.roles)
                  THEN 400
             ELSE 200
       IN /\ users' = IF status = 200
                       THEN [users EXCEPT ![id] = SaveUser(ObjectAssign(users[id], value))]
                       ELSE users
          /\ Finish(status, 200)
    /\ UNCHANGED <<roles, permissions>>

\* the soft delete as it would be if it also emptied the role set
DeactivatedDroppingRoles(doc) ==
    [doc EXCEPT !.isActive = FALSE, !.refreshTokens = {}, !.roles = <<>>]

\* the soft delete of DELETE /api/users/:id
Deactivated(doc) == [doc EXCEPT !.isActive = FALSE, !.refreshTokens = {}]

\* DELETE /api/users/:id
DeleteUser ==
    /\ req.pc = "authorized" /\ req.route = "deleteUser"
    /\ LET id == req.target
           status == IF id \notin ExistingUsers THEN 404
                     ELSE IF req.user # Nil /\ id = req.user THEN 400
                     ELSE 200
       IN /\ users' = IF status = 200 THEN [users EXCEPT ![id] = Deactivated(users[id])]
                       ELSE users
          /\ Finish(status, 200)
    /\ UNCHANGED <<roles, permissions>>

\* the activation as it would be if it gave the user a fresh start
ActivateUserFresh ==
    /\ req.pc = "authorized" /\ req.route = "activateUser"
    /\ LET id == req.target
           status == IF id \notin ExistingUsers THEN 404 ELSE 200
       IN /\ users' = IF status = 200
                       THEN [users EXCEPT ![id].isActive = TRUE, ![id].roles = <<>>]
                       ELSE users
          /\ Finish(status, 200)
    /\ UNCHANGED <<roles, permissions>>

\* PATCH /api/users/:id/activate
ActivateUser ==
    /\ req.pc = "authorized" /\ req.route = "activateUser"
    /\ LET id == req.target
           status == IF id \notin ExistingUsers THEN 404 ELSE 200
       IN /\ users' = IF status = 200 THEN [users EXCEPT ![id].isActive = TRUE] ELSE users
          /\ Finish(status, 200)
    /\ UNCHANGED <<roles, permissions>>

\* PUT /api/users/:id/roles
AssignRoles(rs) ==
    /\ req.pc = "authorized" /\ req.route = "assignRoles"
    /\ LET id == req.target
           status == IF id \notin ExistingUsers THEN 404
                     ELSE IF Len(rs) > 0 /\ Cardinality(ValidRoles(rs)) # Len(rs) THEN 400
                     ELSE 200
       IN /\ users' = IF status = 200 THEN [users EXCEPT ![id].roles = rs] ELSE users
          /\ Finish(status, 200)
    /\ UNCHANGED <<roles, permissions>>

\* ------------------------------------------------------------ roles router
\* POST /api/roles
CreateRole(name, ps) ==
    /\ req.pc = "authorized" /\ req.route = "createRole"
    /\ LET status ==
             IF \E r \in ExistingRoles : roles[r].name = name THEN 409
             ELSE IF Len(ps) > 0 /\ Cardinality(ValidPermissions(ps)) # Len(ps) THEN 400
             ELSE 201
       IN /\ roles' = IF status = 201 THEN Append(roles, RoleDoc(name, ps, TRUE)) ELSE roles
          /\ Finish(status, 201)
    /\ UNCHANGED <<users, permissions>>

UpdateRoleBodies ==
    {<<>>}
    \cup {("name" :> n) : n \in RoleNames}
    \cup {("permissions" :> ps) : ps \in PermLists}
    \cup {("isActive" :> b) : b \in BOOLEAN}

\* PUT /api/roles/:id as it would be without the lookup of the new name
UpdateRoleNoNameCheck(value) ==
    /\ req.pc = "authorized" /\ req.route = "updateRole"
    /\ LET id == req.target
           status ==
             IF id \notin ExistingRoles THEN 404
             ELSE IF /\ "permissions" \in DOMAIN value
                     /\ Cardinality(ValidPermissions(value.permissions)) # Len(value.permissions)
                  THEN 400
             ELSE 200
       IN /\ roles' = IF status = 200
                       THEN [roles EXCEPT ![id] = ObjectAssign(roles[id], value)]
                       ELSE roles
          /\ Finish(status, 200)
    /\ UNCHANGED <<users, permissions>>

\* PUT /api/roles/:id
UpdateRole(value) ==
    /\ req.pc = "authorized" /\ req.route = "updateRole"
    /\ LET id == req.target
           status ==
             IF id \notin ExistingRoles THEN 404
             ELSE IF /\ "name" \in DOMAIN value
                     /\ value.name # roles[id].name
                     /\ \E r \in ExistingRoles \ {id} : roles[r].name = value.name
                  THEN 409
             ELSE IF /\ "permissions" \in DOMAIN value
                     /\ Cardinality(ValidPermissions(value.permissions)) # Len(value.permissions)
                  THEN 400
             ELSE 200
       IN /\ roles' = IF status = 200
                       THEN [roles EXCEPT ![id] = ObjectAssign(roles[id], value)]
                       ELSE roles
          /\ Finish(status, 200)
    /\ UNCHANGED <<users, permissions>>

\* User.countDocuments({roles: id, isActive: true})
ActiveUserCount(id) ==
    Cardinality({u \in ExistingUsers : users[u].isActive /\ id \in Range(users[u].roles)})

\* DELETE /api/roles/:id
DeleteRole ==
    /\ req.pc = "authorized" /\ req.route = "deleteRole"
    /\ LET id == req.target
           status == IF id \notin ExistingRoles THEN 404
                     ELSE IF ActiveUserCount(id) > 0 THEN 400
                     ELSE 200
       IN /\ roles' = IF status = 200 THEN [roles EXCEPT ![id].isActive = FALSE] ELSE roles
          /\ Finish(status, 200)
    /\ UNCHANGED <<users, permissions>>

\* the replacement as it would be if the role were rebuilt with the schema defaults
WithPermissionsRebuilt(doc, ps) == RoleDoc(doc.name, ps, TRUE)

\* the replacement as it would be if the submitted ids were added to the ones held
WithPermissionsAdded(doc, ps) == [doc EXCEPT !.permissions = @ \o ps]

\* role.permissions = permissions || []
WithPermissions(doc, ps) == [doc EXCEPT !.permissions = ps]

\* PUT /api/roles/:id/permissions
SetRolePermissions(ps) ==
    /\ req.pc = "authorized" /\ req.route = "setRolePermissions"
    /\ LET id == req.target
           status == IF id \notin ExistingRoles THEN 404
                     ELSE IF Len(ps) > 0 /\ Cardinality(ValidPermissions(ps)) # Len(ps) THEN 400
                     ELSE 200
       IN /\ roles' = IF status = 200
                       THEN [roles EXCEPT ![id] = WithPermissions(roles[id], ps)]
                       ELSE roles
          /\ Finish(status, 200)
    /\ UNCHANGED <<users, permissions>>

\* ------------------------------------------------------ permissions router
\* POST /api/permissions
CreatePermission(name, resource, action) ==
    /\ req.pc = "authorized" /\ req.route = "createPermission"
    /\ LET status ==
             IF \E p \in ExistingPerms : permissions[p].name = name THEN 409
             ELSE IF \E p \in ExistingPerms :
                        permissions[p].resource = resource /\ permissions[p].action = action
                  THEN 409
             ELSE 201
       IN /\ permissions' = IF status = 201
                             THEN Append(permissions, PermDoc(name, resource, action))
                             ELSE permissions
          /\ Finish(status, 201)
    /\ UNCHANGED <<users, roles>>

\* Role.countDocuments({permissions: id, isActive: true})
ActiveRoleCount(id) ==
    Cardinality({r \in ExistingRoles : roles[r].isActive /\ id \in Range(roles[r].permissions)})

\* the delete as it would be if it removed the permission before counting the roles
DeletePermissionBeforeCheck ==
    /\ req.pc = "authorized" /\ req.route = "deletePermission"
    /\ LET id == req.target
           status == IF id \notin ExistingPerms THEN 404
                     ELSE IF ActiveRoleCount(id) > 0 THEN 400
                     ELSE 200
       IN /\ permissions' = IF status # 404 THEN [permissions EXCEPT ![id].deleted = TRUE]
                             ELSE permissions
          /\ Finish(status, 200)
    /\ UNCHANGED <<users, roles>>

\* DELETE /api/permissions/:id
DeletePermission ==
    /\ req.pc = "authorized" /\ req.route = "deletePermission"
    /\ LET id == req.target
           status == IF id \notin ExistingPerms THEN 404
                     ELSE IF ActiveRoleCount(id) > 0 THEN 400
                     ELSE 200
       IN /\ permissions' = IF status = 200 THEN [permissions EXCEPT ![id].deleted = TRUE]
                             ELSE permissions
          /\ Finish(status, 200)
    /\ UNCHANGED <<users, roles>>

\* ------------------------------------------------------------- auth router
\* the refresh-token strings of the session runs: "rt0" is the token of a session the
\* second user opened before the run, "rt1" the one a login issues at clock 0
SessionTokenIds == {"rt0", "rt1"}
IssuedAt(tk) == IF tk = "rt0" THEN 0 - AccessTtl ELSE 0

\* the signed string tk as user u was given it: the claims of generateRefreshToken
IssuedRefresh(u, tk) ==
    [str |-> tk, sig |-> generateRefreshToken(u, IssuedAt(tk)).sig,
     id |-> generateRefreshToken(u, IssuedAt(tk)).id,
     exp |-> generateRefreshToken(u, IssuedAt(tk)).exp]

\* the login as it would be if it did not look at isActive
LoginInactiveToo(u, tk) ==
    /\ req.pc \in {"idle", "done"}
    /\ req.audited # "pending"
    /\ nops < MaxOps
    /\ u \in ExistingUsers
    /\ tk \notin users[u].refreshTokens
    /\ users' = [users EXCEPT ![u].refreshTokens = @ \cup {tk}]
    /\ req' = [Done(u, "login", Nil, 200) EXCEPT !.token = IssuedRefresh(u, tk)]
    /\ nops' = nops + 1
    /\ UNCHANGED <<roles, permissions, auditVars, parked>>

\* POST /api/auth/login with the email of user u and the right password: 401 for a
\* principal that is not active; otherwise 200, and the refresh token issued (tk) is
\* added to the user's outstanding set. The answer keeps the principal the
\* credentials named and the refresh token it carries (none on a 401)
Login(u, tk) ==
    /\ req.pc \in {"idle", "done"}
    /\ req.audited # "pending"
    /\ nops < MaxOps
    /\ u \in ExistingUsers
    /\ tk \notin users[u].refreshTokens
    /\ users' = IF users[u].isActive
                THEN [users EXCEPT ![u].refreshTokens = @ \cup {tk}]
                ELSE users
    /\ req' = IF users[u].isActive
              THEN [Done(u, "login", Nil, 200) EXCEPT !.token = IssuedRefresh(u, tk)]
              ELSE Done(u, "login", Nil, 401)
    /\ nops' = IF users[u].isActive THEN nops + 1 ELSE nops
    /\ UNCHANGED <<roles, permissions, auditVars, parked>>

\* POST /api/auth/refresh with body {refreshToken}: 200 and a new access token when
\* the token verifies under the refresh secret and its string is in the outstanding
\* set of the principal it names, 401 otherwise; the set is left as it is
Refresh(token, t) ==
    /\ req.pc \in {"idle", "done"}
    /\ req.audited # "pending"
    /\ LET ok == /\ jwtVerify(token, "refresh", t) = "ok"
                 /\ token.id \in ExistingUsers
                 /\ token.str \in users[token.id].refreshTokens
       IN req' = [Done(IF ok THEN token.id ELSE Nil, "refresh", Nil,
                       IF ok THEN 200 ELSE 401)
                     EXCEPT !.token = token, !.at = t]
    /\ UNCHANGED <<users, roles, permissions, nops, auditVars, parked>>

\* the logout as it would be if it ended every session of the caller
LogoutAll(tk) ==
    /\ req.pc = "authenticated"
    /\ users' = [users EXCEPT ![req.user].refreshTokens = {}]
    /\ req' = [Done(req.user, "logout", Nil, 200)
                  EXCEPT !.token = IssuedRefresh(req.user, tk),
                         !.wasActive = tk \in users[req.user].refreshTokens]
    /\ nops' = IF tk \in users[req.user].refreshTokens THEN nops + 1 ELSE nops
    /\ UNCHANGED <<roles, permissions, auditVars, parked>>

\* the logout as it would be if it answered 404 for a string that is not outstanding
LogoutRejectsAbsent(tk) ==
    /\ req.pc = "authenticated"
    /\ users' = [users EXCEPT ![req.user].refreshTokens = @ \ {tk}]
    /\ req' = [Done(req.user, "logout", Nil,
                    IF tk \in users[req.user].refreshTokens THEN 200 ELSE 404)
                  EXCEPT !.token = IssuedRefresh(req.user, tk),
                         !.wasActive = tk \in users[req.user].refreshTokens,
                         !.loaded = req.loaded]
    /\ nops' = IF tk \in users[req.user].refreshTokens THEN nops + 1 ELSE nops
    /\ UNCHANGED <<roles, permissions, auditVars, parked>>

\* the logout as it would be if it filtered the array of the document authenticate
\* loaded and wrote the whole array back
LogoutFromLoaded(tk) ==
    /\ req.pc = "authenticated"
    /\ users' = [users EXCEPT ![req.user].refreshTokens = req.loaded \ {tk}]
    /\ req' = [Done(req.user, "logout", Nil, 200)
                  EXCEPT !.token = IssuedRefresh(req.user, tk),
                         !.wasActive = tk \in users[req.user].refreshTokens,
                         !.loaded = req.loaded]
    /\ nops' = IF tk \in users[req.user].refreshTokens THEN nops + 1 ELSE nops
    /\ UNCHANGED <<roles, permissions, auditVars, parked>>

\* POST /api/auth/logout behind authenticate, with body {refreshToken}: the string is
\* taken out of the caller's outstanding set as the set is when the update arrives
\* (the answer keeps the array authenticate had loaded)
Logout(tk) ==
    /\ req.pc = "authenticated"
    /\ users' = [users EXCEPT ![req.user].refreshTokens = @ \ {tk}]
    /\ req' = [Done(req.user, "logout", Nil, 200)
                  EXCEPT !.token = IssuedRefresh(req.user, tk),
                         !.wasActive = tk \in users[req.user].refreshTokens,
                         !.loaded = req.loaded]
    /\ nops' = IF tk \in users[req.user].refreshTokens THEN nops + 1 ELSE nops
    /\ UNCHANGED <<roles, permissions, auditVars, parked>>

Next ==
    \/ \E token \in Tokens \cup {NoToken}, t \in Times : Receive(token, t)
    \/ authenticate
    \/ \E route \in Routes : \E target \in TargetsOf(route) : guard(route, target)
    \/ \E email \in Emails, firstName \in FirstNames, rs \in RoleLists :
          CreateUser(email, firstName, rs)
    \/ \E value \in UpdateUserBodies : UpdateUser(value)
    \/ DeleteUser
    \/ ActivateUser
    \/ \E rs \in RoleLists : AssignRoles(rs)
    \/ \E name \in RoleNames, ps \in PermLists : CreateRole(name, ps)
    \/ \E value \in UpdateRoleBodies : UpdateRole(value)
    \/ DeleteRole
    \/ \E ps \in PermLists : SetRolePermissions(ps)
    \/ \E name \in PermNames, resource \in NewResources, action \in NewActions :
          CreatePermission(name, resource, action)
    \/ DeletePermission
    \/ AuditSave
    \/ \E u \in LoginIds, tk \in TokenIds : Login(u, tk)

Spec == Init /\ [][Next]_vars

\* the same server started with an audit storage that takes up to MaxAudit records,
\* under requests of both seeded users to three routes: one behind the ownership
\* guard, one behind authorize with an id, one behind authorize without
InitAudit == Seeded /\ auditRoom \in 0..MaxAudit

AuditRoutes == {"updateUser", "deleteUser", "createRole"}
AuditTokens == {tk \in Tokens : tk.sig = "access" /\ tk.id \in ExistingUsers}
AuditUserBodies == {("email" :> "New@x.io"), ("isActive" :> FALSE)}

NextAudit ==
    \/ \E token \in AuditTokens : Receive(token, 0)
    \/ authenticate
    \/ \E route \in AuditRoutes : \E target \in TargetsOf(route) : guard(route, target)
    \/ \E value \in AuditUserBodies : UpdateUser(value)
    \/ DeleteUser
    \/ \E name \in RoleNames : CreateRole(name, <<>>)
    \/ AuditSave

SpecAudit == InitAudit /\ [][NextAudit]_vars

\* the server with a session of the second user already open, under logins, refreshes,
\* logouts and deactivations (DELETE /api/users/:id) of both seeded users
InitSession ==
    /\ permissions = SeedPermissions
    /\ roles = SeedRoles
    /\ users = [SeedUsers EXCEPT ![2].refreshTokens = {"rt0"}]
    /\ req = Idle
    /\ nops = 0
    /\ audit = <<>>
    /\ auditRoom = 0
    /\ parked = Idle

\* the refresh tokens presented: the issued strings of both users, and an access token
\* sent in the place of a refresh token
SessionRefresh ==
    {IssuedRefresh(u, tk) : u \in ExistingUsers, tk \in SessionTokenIds}
    \cup {[str |-> "at1", sig |-> generateAccessToken(2, 0).sig,
           id |-> generateAccessToken(2, 0).id, exp |-> generateAccessToken(2, 0).exp]}

\* refresh tokens sent in the Authorization header, in the place of an access token
RefreshAsBearer == {generateRefreshToken(u, 0) : u \in ExistingUsers}

NextSession ==
    \/ \E u \in ExistingUsers : Login(u, "rt1")
    \/ \E token \in SessionRefresh, t \in Times : Refresh(token, t)
    \/ \E token \in AuditTokens \cup RefreshAsBearer : Receive(token, 0)
    \/ authenticate
    \/ \E tk \in SessionTokenIds : Logout(tk)
    \/ \E target \in TargetsOf("deleteUser") : guard("deleteUser", target)
    \/ DeleteUser
    \/ AuditSave

SpecSession == InitSession /\ [][NextSession]_vars

\* ------------------------------------------------------ concurrent requests
\* every await of a handler lets the server turn to another request. A request that
\* authenticate has passed, or whose handler has made its checks and not yet its
\* write, is set aside; the server takes it up again when the request at hand is over
Yield ==
    /\ req.pc \in {"authenticated", "checked"}
    /\ parked = Idle
    /\ parked' = req
    /\ req' = Idle
    /\ UNCHANGED <<users, roles, permissions, nops, auditVars>>

Resume ==
    /\ req.pc \in {"idle", "done"}
    /\ req.audited # "pending"
    /\ parked # Idle
    /\ req' = parked
    /\ parked' = Idle
    /\ UNCHANGED <<users, roles, permissions, nops, auditVars>>

\* DELETE /api/permissions/:id up to its last await: Permission.findById found the
\* permission and Role.countDocuments counted no active role
DeletePermissionCheck ==
    /\ req.pc = "authorized" /\ req.route = "deletePermission"
    /\ req.target \in ExistingPerms
    /\ ActiveRoleCount(req.target) = 0
    /\ req' = [req EXCEPT !.pc = "checked"]
    /\ UNCHANGED <<users, roles, permissions, nops, auditVars, parked>>

\* DELETE /api/permissions/:id from Permission.findByIdAndDelete on
DeletePermissionWrite ==
    /\ req.pc = "checked" /\ req.route = "deletePermission"
    /\ permissions' = [permissions EXCEPT ![req.target].deleted = TRUE]
    /\ Finish(200, 200)
    /\ UNCHANGED <<users, roles>>

\* DELETE /api/users/:id up to user.save(): User.findById found the user and it is
\* not the caller
DeleteUserCheck ==
    /\ req.pc = "authorized" /\ req.route = "deleteUser"
    /\ req.target \in ExistingUsers
    /\ req.target # req.user
    /\ req' = [req EXCEPT !.pc = "checked"]
    /\ UNCHANGED <<users, roles, permissions, nops, auditVars, parked>>

\* DELETE /api/users/:id from user.save() on: the save writes the two paths the
\* handler assigned, isActive and refreshTokens
DeleteUserWrite ==
    /\ req.pc = "checked" /\ req.route = "deleteUser"
    /\ users' = [users EXCEPT ![req.target] = Deactivated(users[req.target])]
    /\ Finish(200, 200)
    /\ UNCHANGED <<roles, permissions>>

\* the unique indexes of the permissions collection (name; resource with action): does
\* inserting document d into perms raise a duplicate-key error
UniqueIndexConflict(perms, d) ==
    \E p \in DOMAIN perms :
        /\ ~perms[p].deleted
        /\ \/ perms[p].name = d.name
           \/ perms[p].resource = d.resource /\ perms[p].action = d.action

\* the collection as it would be without its unique indexes
RECURSIVE insertManyUnindexed(_, _)
insertManyUnindexed(perms, docs) ==
    IF docs = <<>> THEN [docs |-> perms, ok |-> TRUE]
    ELSE insertManyUnindexed(
             Append(perms, PermDoc(Head(docs).name, Head(docs).resource, Head(docs).action)),
             Tail(docs))

\* Permission.insertMany(docs), ordered: the documents are inserted one after another
\* and the first duplicate-key error ends the call, the earlier ones staying inserted;
\* permission.save() of a new document is the case of one document
RECURSIVE insertMany(_, _)
insertMany(perms, docs) ==
    IF docs = <<>> THEN [docs |-> perms, ok |-> TRUE]
    ELSE IF UniqueIndexConflict(perms, Head(docs)) THEN [docs |-> perms, ok |-> FALSE]
    ELSE insertMany(
             Append(perms, PermDoc(Head(docs).name, Head(docs).resource, Head(docs).action)),
             Tail(docs))

\* the documents a create request can carry, and the arrays of a bulk request
CatalogDocs ==
    {[name |-> n, resource |-> r, action |-> a] :
        n \in PermNames, r \in NewResources, a \in NewActions}
Batches ==
    {<<>>} \cup {<<d>> : d \in CatalogDocs} \cup {<<d, e>> : d \in CatalogDocs, e \in CatalogDocs}

\* a handler goes on to insert n documents only while the model has ids left for
\* them and for the documents of a request set aside
Room(n) == Len(permissions) + n + Len(parked.body) <= MaxPerms

\* the answer of POST /api/permissions/bulk to the array batch on the catalog at hand
BulkStatus(batch) ==
    IF Len(batch) = 0 THEN 400
    ELSE IF Cardinality({batch[i].name : i \in DOMAIN batch}) # Len(batch) THEN 400
    ELSE IF Cardinality({<<batch[i].resource, batch[i].action>> : i \in DOMAIN batch})
                # Len(batch) THEN 400
    ELSE IF \E p \in ExistingPerms, i \in DOMAIN batch : permissions[p].name = batch[i].name
         THEN 409
    ELSE IF \E p \in ExistingPerms, i \in DOMAIN batch :
               /\ permissions[p].resource = batch[i].resource
               /\ permissions[p].action = batch[i].action
         THEN 409
    ELSE IF insertMany(permissions, batch).ok THEN 201
    ELSE 500

\* POST /api/permissions/bulk without another request in between
BulkCreatePermissions(batch) ==
    /\ req.pc = "authorized" /\ req.route = "bulkCreatePermissions"
    /\ Room(Len(batch))
    /\ permissions' = IF BulkStatus(batch) = 201 THEN insertMany(permissions, batch).docs
                      ELSE permissions
    /\ Finish(BulkStatus(batch), 201)
    /\ UNCHANGED <<users, roles>>

\* POST /api/permissions/bulk up to Permission.insertMany: the array passed every check
BulkCreateCheck(batch) ==
    /\ req.pc = "authorized" /\ req.route = "bulkCreatePermissions"
    /\ Room(Len(batch))
    /\ BulkStatus(batch) = 201
    /\ req' = [req EXCEPT !.pc = "checked", !.body = batch]
    /\ UNCHANGED <<users, roles, permissions, nops, auditVars, parked>>

\* POST /api/permissions/bulk from Permission.insertMany on: 201, or the 500 of the
\* catch block when the insert threw
BulkCreateWrite ==
    /\ req.pc = "checked" /\ req.route = "bulkCreatePermissions"
    /\ permissions' = insertMany(permissions, req.body).docs
    /\ Finish(IF insertMany(permissions, req.body).ok THEN 201 ELSE 500, 201)
    /\ UNCHANGED <<users, roles>>

\* POST /api/permissions up to permission.save(): both findOne calls found nothing
CreatePermissionCheck(name, resource, action) ==
    /\ req.pc = "authorized" /\ req.route = "createPermission"
    /\ Room(1)
    /\ ~\E p \in ExistingPerms : permissions[p].name = name
    /\ ~\E p \in ExistingPerms :
            permissions[p].resource = resource /\ permissions[p].action = action
    /\ req' = [req EXCEPT !.pc = "checked",
                          !.body = <<[name |-> name, resource |-> resource,
                                      action |-> action]>>]
    /\ UNCHANGED <<users, roles, permissions, nops, auditVars, parked>>

\* POST /api/permissions from permission.save() on
CreatePermissionWrite ==
    /\ req.pc = "checked" /\ req.route = "createPermission"
    /\ permissions' = insertMany(permissions, req.body).docs
    /\ Finish(IF insertMany(permissions, req.body).ok THEN 201 ELSE 500, 201)
    /\ UNCHANGED <<users, roles>>

\* a store whose catalog holds only the permission the administrator needs
InitCatalog ==
    /\ permissions = <<PermDoc("Manage Permissions", "permission", "manage")>>
    /\ roles = <<RoleDoc("Admin", <<1>>, TRUE)>>
    /\ users = <<UserCreate(UserDoc("admin@x.io", "Ann", <<1>>, TRUE))>>
    /\ req = Idle
    /\ nops = 0
    /\ audit = <<>>
    /\ auditRoom = 0
    /\ parked = Idle

CatalogRoutes == {"createPermission", "bulkCreatePermissions", "deletePermission"}

NextCatalog ==
    \/ \E token \in AuditTokens : Receive(token, 0)
    \/ authenticate
    \/ Yield
    \/ Resume
    \/ \E route \in CatalogRoutes : \E target \in TargetsOf(route) : guard(route, target)
    \/ \E name \in PermNames, resource \in NewResources, action \in NewActions :
           \/ CreatePermission(name, resource, action)
           \/ CreatePermissionCheck(name, resource, action)
    \/ CreatePermissionWrite
    \/ \E batch \in Batches : BulkCreatePermissions(batch) \/ BulkCreateCheck(batch)
    \/ BulkCreateWrite
    \/ DeletePermission
    \/ AuditSave

SpecCatalog == InitCatalog /\ [][NextCatalog]_vars

\* the runs on names: the requests that give a role its name or a user its email
NamesRoutes == {"createUser", "updateUser", "createRole", "updateRole"}
NamesEmails == {"Admin@x.io", "New@x.io", "new@x.io"}
NamesRoleNames == {"Admin", "Viewer", "Manager"}

NextNames ==
    \/ \E token \in AuditTokens : Receive(token, 0)
    \/ authenticate
    \/ \E route \in NamesRoutes : \E target \in TargetsOf(route) : guard(route, target)
    \/ \E email \in NamesEmails, firstName \in FirstNames : CreateUser(email, firstName, <<>>)
    \/ \E email \in NamesEmails : UpdateUser("email" :> email)
    \/ \E name \in NamesRoleNames : CreateRole(name, <<>>)
    \/ \E name \in NamesRoleNames : UpdateRole("name" :> name)
    \/ AuditSave

SpecNames == Init /\ [][NextNames]_vars

\* the seed script from its users step on: permissions and roles are in place, the
\* users collection is empty
InitSeed ==
    /\ permissions = SeedPermissions
    /\ roles = SeedRoles
    /\ users = <<>>
    /\ req = Idle
    /\ nops = 0
    /\ audit = <<>>
    /\ auditRoom = 0
    /\ parked = Idle

\* seed.ts: const superAdmin = await User.create({...})
SeedUserCreate ==
    /\ users = <<>>
    /\ users' = <<UserCreate(UserDoc("admin@x.io", "Ann", <<2, 1>>, TRUE))>>
    /\ UNCHANGED <<roles, permissions, req, nops, auditVars, parked>>

\* seed.ts: const users = await User.insertMany([...])
SeedUserInsertMany ==
    /\ Len(users) = 1
    /\ users' = users \o UserInsertMany(<<UserDoc("viewer@x.io", "Bob", <<2>>, TRUE)>>)
    /\ UNCHANGED <<roles, permissions, req, nops, auditVars, parked>>

SeedRoutes == {"createUser", "updateUser"}

\* the seed script, and the server on the store the script has filled so far
NextSeed ==
    \/ SeedUserCreate
    \/ SeedUserInsertMany
    \/ \E token \in AuditTokens : Receive(token, 0)
    \/ authenticate
    \/ \E route \in SeedRoutes : \E target \in TargetsOf(route) : guard(route, target)
    \/ \E email \in Emails, firstName \in FirstNames, rs \in RoleLists :
           CreateUser(email, firstName, rs)
    \/ \E value \in UpdateUserBodies : UpdateUser(value)
    \/ AuditSave

SpecSeed == InitSeed /\ [][NextSeed]_vars

\* PUT /api/users/:id/roles up to user.save(): the user was found and Role.find
\* returned an active role for every submitted id
AssignRolesCheck(rs) ==
    /\ req.pc = "authorized" /\ req.route = "assignRoles"
    /\ req.target \in ExistingUsers
    /\ Len(rs) = 0 \/ Cardinality(ValidRoles(rs)) = Len(rs)
    /\ req' = [req EXCEPT !.pc = "checked", !.body = rs]
    /\ UNCHANGED <<users, roles, permissions, nops, auditVars, parked>>

\* PUT /api/users/:id/roles from user.roles = roles and user.save() on
AssignRolesWrite ==
    /\ req.pc = "checked" /\ req.route = "assignRoles"
    /\ users' = [users EXCEPT ![req.target].roles = req.body]
    /\ Finish(200, 200)
    /\ UNCHANGED <<roles, permissions>>

\* a store that has been in use: next to the seeded documents a permission that only
\* a deactivated role holds, that role, and a deactivated user holding the Guest
\* role; the second user has a session open
InitStale ==
    /\ permissions = Append(SeedPermissions, PermDoc("Delete Users", "user", "delete"))
    /\ roles = Append(SeedRoles, RoleDoc("Legacy", <<Len(SeedPermissions) + 1>>, FALSE))
    /\ users = Append([SeedUsers EXCEPT ![2].refreshTokens = {"rt0"}],
                      UserCreate(UserDoc("old@x.io", "Cy", <<Len(SeedRoles)>>, FALSE)))
    /\ req = Idle
    /\ nops = 0
    /\ audit = <<>>
    /\ auditRoom = 0
    /\ parked = Idle

StaleRoutes == {"deleteUser", "activateUser", "assignRoles", "deleteRole", "updateRole",
                "deletePermission"}
StaleRoleLists == {<<>>, <<Len(SeedRoles)>>}

NextStale ==
    \/ \E token \in AuditTokens : Receive(token, 0)
    \/ authenticate
    \/ Yield
    \/ Resume
    \/ \E route \in StaleRoutes : \E target \in TargetsOf(route) : guard(route, target)
    \/ DeleteUser
    \/ ActivateUser
    \/ \E rs \in StaleRoleLists : AssignRoles(rs) \/ AssignRolesCheck(rs)
    \/ AssignRolesWrite
    \/ DeleteRole
    \/ UpdateRole("isActive" :> TRUE)
    \/ DeletePermission
    \/ AuditSave

SpecStale == InitStale /\ [][NextStale]_vars

\* the store of the concurrent runs: the seeded one, a permission no role holds, and
\* a session of the second user open
InitRace ==
    /\ permissions = Append(SeedPermissions, PermDoc("Delete Users", "user", "delete"))
    /\ roles = SeedRoles
    /\ users = [SeedUsers EXCEPT ![2].refreshTokens = {"rt0"}]
    /\ req = Idle
    /\ nops = 0
    /\ audit = <<>>
    /\ auditRoom = 0
    /\ parked = Idle

RaceRoutes == {"deleteUser", "deletePermission", "setRolePermissions"}
RacePermLists == {<<>>, <<Len(SeedPermissions) + 1>>}

NextRace ==
    \/ \E token \in AuditTokens : Receive(token, 0)
    \/ authenticate
    \/ Yield
    \/ Resume
    \/ \E route \in RaceRoutes : \E target \in TargetsOf(route) : guard(route, target)
    \/ DeleteUser
    \/ DeleteUserCheck
    \/ DeleteUserWrite
    \/ DeletePermission
    \/ DeletePermissionCheck
    \/ DeletePermissionWrite
    \/ \E ps \in RacePermLists : SetRolePermissions(ps)
    \/ \E u \in LoginIds : Login(u, "rt1")
    \/ \E tk \in SessionTokenIds : Logout(tk)
    \/ AuditSave

SpecRace == InitRace /\ [][NextRace]_vars

\* ------------------------------------------------------------------ claims
CheckedResources == Resources \cup {"audit"}
CheckedActions == Actions \cup {"approve"}

\* p names a permission of the store that is on resource, for action or for 'manage'
Grants(p, resource, action) ==
    /\ p \in DOMAIN permissions
    /\ ~permissions[p].deleted
    /\ permissions[p].resource = resource
    /\ permissions[p].action \in {action, "manage"}

\* role r is active and holds a grant that matches (resource, action)
ActiveGrant(r, resource, action) ==
    /\ r \in ExistingRoles
    /\ roles[r].isActive
    /\ \E i \in DOMAIN roles[r].permissions :
          Grants(roles[r].permissions[i], resource, action)

\* role r, active or not, holds a grant that matches (resource, action)
HoldsGrant(r, resource, action) ==
    /\ r \in ExistingRoles
    /\ \E i \in DOMAIN roles[r].permissions :
          Grants(roles[r].permissions[i], resource, action)

\* C1: for an active principal, hasPermission(resource, action) is true exactly when
\* some role of the principal is active and holds a permission on that resource whose
\* action is the requested one or 'manage', wherever that role stands in the list.
C1_HasPermissionIffActiveGrant ==
    \A u \in ExistingUsers : users[u].isActive =>
        \A resource \in CheckedResources, action \in CheckedActions :
            hasPermission(u, resource, action)
                <=> \E r \in Range(users[u].roles) : ActiveGrant(r, resource, action)

\* a guard let a caller through on a grant of a later role: the first role of the
\* caller does not match, and the grant is a 'manage' one
C1_Witness ==
    /\ req.pc = "authorized"
    /\ RouteGuard(req.route).kind = "authorize"
    /\ Len(users[req.user].roles) > 1
    /\ ~ActiveGrant(users[req.user].roles[1], RouteGuard(req.route).resource,
                    RouteGuard(req.route).action)
    /\ RouteGuard(req.route).action # "manage"

\* C2: hasPermission is false for every principal with isActive = false.
C2_InactivePrincipalDenied ==
    \A u \in ExistingUsers : ~users[u].isActive =>
        \A resource \in CheckedResources, action \in CheckedActions :
            ~hasPermission(u, resource, action)

\* C3: when every role of a principal that holds a matching grant is inactive,
\* hasPermission is false.
C3_InactiveRolesNeverGrant ==
    \A u \in ExistingUsers :
        \A resource \in CheckedResources, action \in CheckedActions :
            (\A r \in Range(users[u].roles) :
                HoldsGrant(r, resource, action) => ~roles[r].isActive)
            => ~hasPermission(u, resource, action)

\* a guard has just refused a caller whose only matching grant is in an inactive role
C3_Witness ==
    /\ req.pc = "done" /\ req.status = 403
    /\ RouteGuard(req.route).kind = "authorize"
    /\ \E r \in Range(users[req.user].roles) :
          /\ HoldsGrant(r, RouteGuard(req.route).resource, RouteGuard(req.route).action)
          /\ ~roles[r].isActive

\* the bearer token of the request at hand passes verification: signed with the
\* access secret, not expired at the clock of the check, naming an active principal
TokenAccepted ==
    /\ req.token.sig = "access"
    /\ req.at < req.token.exp
    /\ req.token.id \in ExistingUsers
    /\ users[req.token.id].isActive

\* C4: authenticate attaches the principal named by the token and calls next exactly
\* when the token is signed with the access secret, not expired, and names an existing
\* principal with isActive = true; otherwise it answers 401, attaches nothing and
\* does not call next.
C4_AuthenticateExactlyValidTokens ==
    [][req.pc = "received" =>
          IF TokenAccepted
          THEN req'.pc = "authenticated" /\ req'.user = req.token.id
          ELSE req'.pc = "done" /\ req'.status = 401 /\ req'.user = Nil]_vars

\* authenticate has attached a principal and called next
C4_Witness == req.pc = "authenticated" /\ req.user \in ExistingUsers

\* C5: a handler of the users, roles or permissions router changes the store only in
\* a request that authenticate accepted and whose route guard allowed the caller; a
\* request answered 401 or 403 by a guard changes nothing.
C5_HandlersRunBehindGuards ==
    [][/\ (store' # store /\ req'.route # "login") =>
             /\ req.pc = "authorized"
             /\ req.user \in ExistingUsers
             /\ users[req.user].isActive
             /\ GuardAllows(req.user, req.route, req.target)
       /\ (req'.pc = "done" /\ req'.status \in {401, 403}) => store' = store
       /\ (req.pc = "authenticated" /\ ~GuardAllows(req.user, req'.route, req'.target))
             => req'.pc = "done"]_vars

\* a handler has run to a successful answer
C5_Witness == req.pc = "done" /\ req.status \in {200, 201} /\ req.route \in Routes

\* C6: a role goes from active to inactive only when no active principal has it.
C6_RoleDeactivatedOnlyWhenUnused ==
    [][\A r \in ExistingRoles :
          (roles[r].isActive /\ ~roles'[r].isActive) => ActiveUserCount(r) = 0]_vars

\* C7: every principal with isActive = false has an empty refreshTokens set.
C7_InactiveHasNoRefreshTokens ==
    \A u \in ExistingUsers : ~users[u].isActive => users[u].refreshTokens = {}

\* C8: no request made by a principal sets that principal's own isActive to false.
C8_NoSelfDeactivation ==
    [][(req.pc = "authorized" /\ users[req.user].isActive) => users'[req.user].isActive]_vars

C11_DeletedRecordNotFound ==
    (req.pc = "done" /\ req.status = 200) =>
        /\ req.route = "deleteUser" => req.target \notin ExistingUsers
        /\ req.route = "deleteRole" => req.target \notin ExistingRoles

\* the (resource, action) the guard of a route asks hasPermission for
Required(route) == <<RouteGuard(route).resource, RouteGuard(route).action>>

\* C12: a guard of a request lets the caller through only on a grant that is, at that
\* moment, in the permission set of a role that is active and is in the caller's role
\* set (or, for the ownership guard, on the caller naming itself): a grant removed, a
\* role unassigned or a role deactivated by an earlier request never yields allow.
C12_ChecksSeeCompletedChanges ==
    [][(req.pc = "authenticated" /\ req'.pc = "authorized") =>
          \/ /\ RouteGuard(req'.route).kind = "ownership"
             /\ req'.target = req.user
          \/ \E r \in Range(users[req.user].roles) :
                ActiveGrant(r, Required(req'.route)[1], Required(req'.route)[2])]_vars

\* the seeded administrator, who held every grant, is refused after an earlier
\* request took the grant away
C12_Witness ==
    /\ req.pc = "done" /\ req.status = 403
    /\ req.user = 1
    /\ nops > 0
    /\ RouteGuard(req.route).kind = "authorize"

\* C13: every 403 of a guard (authorize, requireRoles, authorizeResourceOwnership) comes
\* with one audit record, written before the 403, that names the acting principal and
\* the required (resource, action); the write is at least attempted, and it stores the
\* record whenever the storage takes one.
C13_DenialWritesOneRecord ==
    [][(req.pc = "authenticated" /\ req'.pc = "done" /\ req'.status = 403) =>
          /\ req'.audited \in {"stored", "failed"}
          /\ auditRoom > 0 => req'.audited = "stored"
          /\ req'.audited = "stored" =>
                /\ Len(audit') = Len(audit) + 1
                /\ audit'[Len(audit')].userId = req.user
                /\ audit'[Len(audit')].required = Required(req'.route)]_vars

\* C14: when the response of a successful state-changing request has been returned,
\* the one audit write of the request has already come to its end, stored or failed.
C14_AuditSettledBeforeResponse ==
    (req.pc = "done" /\ req.route \in Routes /\ req.status < 400) =>
        req.audited \in {"stored", "failed"}

\* C15: a failed audit write changes no outcome: createLog ends without throwing, a
\* denied request is answered 403 and changes no document whether or not its record
\* was stored, and the end of the write a successful request left behind changes
\* neither the answer already given nor the documents the handler wrote.
C15_AuditFailureChangesNoOutcome ==
    [][/\ (req.pc = "authenticated" /\ ~GuardAllows(req.user, req'.route, req'.target)) =>
             /\ req'.pc = "done" /\ req'.status = 403
             /\ store' = store
       /\ (req.pc = "done" /\ req.audited = "pending") =>
             /\ req'.pc = "done" /\ req'.status = req.status
             /\ req'.audited = IF auditRoom > 0 THEN "stored" ELSE "failed"
             /\ store' = store
       /\ (req.pc = "authorized" /\ req'.status < 400) =>
             /\ req'.audited = "pending"
             /\ auditVars' = auditVars]_vars

\* a denial was answered 403 although its audit record could not be stored
C15_Witness ==
    /\ req.pc = "done" /\ req.status = 403
    /\ req.audited = "failed"
    /\ auditRoom = 0

\* C16: the audit log only grows at its end: no step changes or removes a record that
\* is there, each new record names the principal of the request that wrote it, and so
\* the id and email in a record stay as written when that principal is changed later.
C16_AuditAppendOnly ==
    [][/\ Len(audit') >= Len(audit)
       /\ \A i \in DOMAIN audit : audit'[i] = audit[i]
       /\ Len(audit') > Len(audit) =>
             /\ Len(audit') = Len(audit) + 1
             /\ audit'[Len(audit')].userId = req.user]_vars

\* a record still carries the email its principal had when the record was written,
\* after the principal's email was changed
C16_Witness ==
    \E i \in DOMAIN audit :
        /\ audit[i].userId \in ExistingUsers
        /\ audit[i].userEmail # users[audit[i].userId].email

\* the way the bearer token of the request at hand fails, "none" when it does not
FailureMode ==
    IF req.token.sig = "none" THEN "no bearer header"
    ELSE IF req.token.sig # "access" THEN "malformed or wrongly signed"
    ELSE IF req.at >= req.token.exp THEN "expired"
    ELSE IF req.token.id \notin ExistingUsers THEN "unknown principal"
    ELSE IF ~users[req.token.id].isActive THEN "inactive principal"
    ELSE "none"

\* C17: authenticate answers each failure mode of the access token (no Bearer header,
\* expired, malformed or wrongly signed, unknown principal, inactive principal) with
\* 401: never 500, never a request left without an answer.
C17_TokenFailuresAnswered401 ==
    [][(req.pc = "received" /\ FailureMode # "none") =>
          req'.pc = "done" /\ req'.status = 401]_vars

\* authenticate has answered 401 to a well-signed, unexpired token of a principal that
\* was deactivated
C17_Witness ==
    /\ req.pc = "done" /\ req.status = 401
    /\ req.token.sig = "access" /\ req.at < req.token.exp
    /\ req.token.id \in ExistingUsers
    /\ ~users[req.token.id].isActive

\* C18: for an active principal P, authenticate given the token P.generateAccessToken()
\* produced, at a clock before the token's expiry, attaches the principal with P's id.
C18_AccessTokenRoundTrip ==
    [][\A u \in ExistingUsers, t0 \in Times :
          (/\ req.pc = "received"
           /\ req.token = generateAccessToken(u, t0)
           /\ users[u].isActive
           /\ req.at < req.token.exp)
          => (req'.pc = "authenticated" /\ req'.user = u)]_vars

\* authenticate has attached the second principal, whose generated token is at hand
C18_Witness ==
    /\ req.pc = "authenticated"
    /\ req.user = 2
    /\ generateAccessToken(req.user, 0) \in Tokens
    /\ users[req.user].isActive

\* the refresh token at hand is one a principal was given and still has outstanding,
\* presented before its expiry
RefreshOutstanding(token, t) ==
    \E u \in ExistingUsers, tk \in SessionTokenIds :
        /\ token = IssuedRefresh(u, tk)
        /\ tk \in users[u].refreshTokens
        /\ t < token.exp

C20_LogoutRemovesOnlyThatToken ==
    [][(req.pc = "authenticated" /\ req'.route = "logout") =>
          /\ users' = [users EXCEPT ![req.user].refreshTokens = @ \ {req'.token.str}]
          /\ roles' = roles /\ permissions' = permissions]_vars

\* a logout took out one identifier and the caller still has another outstanding
C20_Witness ==
    /\ req.pc = "done" /\ req.route = "logout" /\ req.status = 200
    /\ req.wasActive
    /\ req.token.str \notin users[req.user].refreshTokens
    /\ users[req.user].refreshTokens # {}

\* C21: a logout with a refresh token that is not in the caller's outstanding set (a
\* second logout with the same token) answers 200 and leaves every principal's set,
\* and the rest of the user documents, as they were
C21_LogoutIdempotent ==
    [][(/\ req.pc = "authenticated"
        /\ req'.route = "logout"
        /\ req'.token.str \notin users[req.user].refreshTokens) =>
          (req'.status = 200 /\ users' = users)]_vars

\* the second user, still active, logs out with "rt0" after an earlier logout took it
\* out of the set it was in at the start
C21_Witness ==
    /\ req.pc = "done" /\ req.route = "logout" /\ req.status = 200
    /\ req.user = 2 /\ req.token.str = "rt0"
    /\ ~req.wasActive
    /\ users[2].isActive
    /\ nops > 0

\* C24: a login with the right password for a principal whose isActive is false is
\* answered 401, its answer carries no token, and no refresh token is added to any
\* outstanding set
C24_InactiveLoginRejected ==
    [][(/\ req.pc \in {"idle", "done"}
        /\ req'.route = "login"
        /\ req' # req
        /\ ~users[req'.user].isActive) =>
          (req'.status = 401 /\ req'.token = NoToken /\ users' = users)]_vars

\* a deactivated principal tried to log in and was turned away
C24_Witness ==
    /\ req.pc = "done" /\ req.route = "login" /\ req.status = 401
    /\ ~users[req.user].isActive
    /\ users[req.user].refreshTokens = {}

\* C22: every change of a principal's outstanding set is one set-update applied to the
\* set as it is when the update arrives, also when requests of the same principal
\* interleave: a login adds the identifier it issued to that principal, a logout
\* takes out the identifier it names, a deactivation empties the set, and no step
\* changes a set in any other way; a login that answers 200 and a logout always have
\* their effect on the set
C22_SetUpdatesAtomic ==
    [][/\ \A u \in DOMAIN users :
            \/ users'[u].refreshTokens = users[u].refreshTokens
            \/ /\ req'.route = "login" /\ req'.user = u
               /\ users'[u].refreshTokens =
                      users[u].refreshTokens \cup {IssuedRefresh(u, req'.token.str).str}
            \/ /\ req'.route = "logout" /\ req'.user = u
               /\ users'[u].refreshTokens = users[u].refreshTokens \ {req'.token.str}
            \/ /\ req'.route = "deleteUser" /\ req'.target = u
               /\ users'[u].refreshTokens = {}
       /\ (req.pc = "authenticated" /\ req'.route = "logout") =>
              users'[req.user].refreshTokens =
                  users[req.user].refreshTokens \ {req'.token.str}
       /\ (req.pc \in {"idle", "done"} /\ req' # req /\ req'.route = "login"
           /\ req'.status = 200) =>
              req'.token.str \in users'[req'.user].refreshTokens]_vars

\* a login of the second user added "rt1" while that user's logout with "rt0" was set
\* aside after authenticate had loaded the set {"rt0"}; the logout then took out
\* "rt0" only: both updates are in the set
C22_Witness ==
    /\ req.pc = "done" /\ req.route = "logout" /\ req.status = 200
    /\ req.token.str = "rt0"
    /\ req.loaded = {"rt0"}
    /\ req.wasActive
    /\ users[req.user].refreshTokens = {"rt1"}

\* C26: a permission leaves the catalog only in a step at whose start no active role
\* holds it
C26_RemovedOnlyWhenUnheld ==
    [][\A p \in DOMAIN permissions :
          (~permissions[p].deleted /\ permissions'[p].deleted) =>
              ActiveRoleCount(p) = 0]_vars

C25_CatalogUnique ==
    \A p \in ExistingPerms, q \in ExistingPerms :
        p # q =>
            /\ permissions[p].name # permissions[q].name
            /\ <<permissions[p].resource, permissions[p].action>>
                   # <<permissions[q].resource, permissions[q].action>>

\* a bulk create that had passed its checks met, at its insertMany, a permission that
\* another create request had inserted meanwhile: the unique index refused it
C25_Witness ==
    /\ req.pc = "done" /\ req.route = "bulkCreatePermissions" /\ req.status = 500
    /\ Cardinality(ExistingPerms) > 1

\* C27: in every reachable state no two roles, active or not, have the same name, and
\* a create or update of a role that is answered with an error (409 for a name in
\* use) leaves all roles unchanged
C27_RoleNamesUnique ==
    [][/\ \A r \in DOMAIN roles, q \in DOMAIN roles :
              r # q => roles[r].name # roles[q].name
       /\ \A r \in DOMAIN roles', q \in DOMAIN roles' :
              r # q => roles'[r].name # roles'[q].name
       /\ (/\ req.pc = "authorized"
           /\ req.route \in {"createRole", "updateRole"}
           /\ req'.status >= 400) => roles' = roles]_vars

\* a role was renamed, and a later request for a name that another role has was
\* answered 409
C27_Witness ==
    /\ req.pc = "done" /\ req.route \in {"createRole", "updateRole"}
    /\ req.status = 409
    /\ roles # SeedRoles

\* C28: in every reachable state no two principals, active or not, have emails that
\* are equal ignoring letter case, and a create or update of a user that is answered
\* with an error (409 for an email in use) leaves all principals unchanged
C28_EmailsUniqueIgnoringCase ==
    [][/\ \A u \in DOMAIN users, v \in DOMAIN users :
              u # v => Lower(users[u].email) # Lower(users[v].email)
       /\ \A u \in DOMAIN users', v \in DOMAIN users' :
              u # v => Lower(users'[u].email) # Lower(users'[v].email)
       /\ (/\ req.pc = "authorized"
           /\ req.route \in {"createUser", "updateUser"}
           /\ req'.status >= 400) => users' = users]_vars

\* a principal was created with the email new@x.io (sent in either spelling, stored in
\* lower case), and a later request for an email in use was answered 409
C28_Witness ==
    /\ req.pc = "done" /\ req.route \in {"createUser", "updateUser"}
    /\ req.status = 409
    /\ Len(users) > Len(SeedUsers)
    /\ users[Len(users)].email = "new@x.io"

\* C29: behind authorizeResourceOwnership('user') (PUT /api/users/:id) a request is at
\* its handler only if the target id is the caller's own id or the caller has
\* 'manage' on 'user' according to hasPermission, and it is answered 403 only if
\* neither is the case
C29_OwnershipGuard ==
    /\ (req.pc = "authorized" /\ req.route = "updateUser") =>
           (req.target = req.user \/ hasPermission(req.user, "user", "manage"))
    /\ (req.pc = "done" /\ req.route = "updateUser" /\ req.status = 403) =>
           (req.target # req.user /\ ~hasPermission(req.user, "user", "manage"))

\* a caller without 'manage' on 'user' is let through to its own record
C29_Witness ==
    /\ req.pc = "authorized" /\ req.route = "updateUser"
    /\ req.target = req.user
    /\ ~hasPermission(req.user, "user", "manage")

\* the role names a route can require
RequiredNames == SUBSET {"Admin", "Viewer", "Manager"}

\* C30: requireRoles admits a principal exactly when one of the roles the principal
\* holds, inactive ones included, has one of the required names
C30_RequireRolesCountsInactive ==
    \A u \in ExistingUsers, required \in RequiredNames :
        requireRoles(u, required) <=>
            \E r \in ExistingRoles :
                r \in Range(users[u].roles) /\ roles[r].name \in required

\* the second user's only role, Viewer, has been deactivated and requireRoles still
\* admits the user where Viewer is required
C30_Witness ==
    /\ users[2].roles = <<2>>
    /\ roles[2].name = "Viewer" /\ ~roles[2].isActive
    /\ requireRoles(2, {"Viewer"})

C32_ExpiryExclusive ==
    [][(req.pc = "received" /\ req.token.sig = "access") =>
          /\ req'.pc = "authenticated" => req.at < req.token.exp
          /\ req.at >= req.token.exp => (req'.pc = "done" /\ req'.status = 401)]_vars

\* the token of an active principal was presented at exactly its exp and answered 401
C32_Witness ==
    /\ req.pc = "done" /\ req.status = 401 /\ req.route = "none"
    /\ req.token.sig = "access"
    /\ req.at = req.token.exp
    /\ req.token.id \in ExistingUsers
    /\ users[req.token.id].isActive

\* C33: in every reachable state the password of every user document is a bcrypt
\* hash, whichever path created the document
C33_PasswordsHashed ==
    \A u \in DOMAIN users : users[u].password.alg = "bcrypt"

C35_RoleSetNeedsUserUpdate ==
    [][\A u \in DOMAIN users :
          (\E r \in Range(users'[u].roles) : r \notin Range(users[u].roles)) =>
              (req.user \in ExistingUsers /\ hasPermission(req.user, "user", "update"))]_vars

\* C36: in every reachable state every role in the role set of an active principal
\* exists and is active
C36_ActivePrincipalsHoldActiveRoles ==
    \A u \in DOMAIN users :
        users[u].isActive =>
            \A r \in Range(users[u].roles) : r \in ExistingRoles /\ roles[r].isActive

\* C37: in every reachable state every permission id in the permission set of an
\* active role names a permission of the catalog
C37_ActiveRolesHoldExistingPermissions ==
    \A r \in DOMAIN roles :
        roles[r].isActive => Range(roles[r].permissions) \subseteq ExistingPerms

\* C39: a successful PATCH /api/users/:id/activate sets isActive of the target to true
\* and changes nothing else: not the target's roles or refreshTokens, no other user,
\* no role and no permission
C39_ActivateChangesOnlyIsActive ==
    [][(req.pc = "authorized" /\ req.route = "activateUser" /\ req'.status = 200) =>
          /\ users' = [users EXCEPT ![req.target].isActive = TRUE]
          /\ roles' = roles
          /\ permissions' = permissions]_vars

\* the second user, whose session was revoked by DELETE /api/users/2, has been
\* reactivated: the role set is the one held before and no refresh token is outstanding
C39_Witness ==
    /\ req.pc = "done" /\ req.route = "activateUser" /\ req.status = 200
    /\ req.target = 2 /\ ~req.wasActive
    /\ users[2].isActive
    /\ users[2].roles = <<2>>
    /\ users[2].refreshTokens = {}

\* C38: the insert of a bulk create that has passed its checks leaves the catalog with
\* all of the submitted permissions added or with none of them
C38_BulkAllOrNothing ==
    [][(req.pc = "checked" /\ req.route = "bulkCreatePermissions"
        /\ req'.pc = "done") =>
          \/ permissions' = permissions
          \/ permissions' = insertManyUnindexed(permissions, req.body).docs]_vars

\* the routes of the users, roles and permissions routers
StoreRoutes == Routes \cup {"bulkCreatePermissions"}

\* C40: an answer with a 4xx status, from authenticate, from a guard or from a handler
\* of the users, roles or permissions routers, comes with no change to any user, role
\* or permission document
C40_ClientErrorsChangeNothing ==
    [][(/\ req.pc \in {"received", "authenticated", "authorized"}
        /\ req'.pc = "done"
        /\ req'.route \in StoreRoutes \cup {"none"}
        /\ req'.status >= 400 /\ req'.status < 500) =>
          (users' = users /\ roles' = roles /\ permissions' = permissions)]_vars

\* a delete of a permission that an active role holds was answered 400
C40_Witness ==
    /\ req.pc = "done" /\ req.route = "deletePermission" /\ req.status = 400
    /\ req.target \in ExistingPerms
    /\ ActiveRoleCount(req.target) > 0

====
